---- MODULE Spec2Model ----
(***************************************************************************)
(* Model of map_to_3d.py: Map3DConverter (thresholding of a grayscale map  *)
(* into an occupancy grid, boundary extraction by 3x3 erosion, one cuboid  *)
(* per boundary cell, a floor quad, assembly and export) and the part of   *)
(* main() that runs the conversion and turns an exception into status 1.   *)
(*                                                                         *)
(* Numbers.  Pixels are the integers 0..255.  A threshold t is held as the *)
(* integer ThreshDen * t, so "p / 255.0 <= 1.0 - t" is the exact           *)
(* comparison p * ThreshDen <= PixelMax * (ThreshDen - t).  Lengths        *)
(* (resolution, origin, wall height) are integers; coordinates are held in *)
(* units of 1/Scale so that cube_size = resolution * 0.9 is the integer    *)
(* CubeNum * resolution.                                                   *)
(***************************************************************************)
EXTENDS Integers, Sequences, FiniteSets, TLC

VARIABLES
    pc,               \* position in convert_to_3d / main
    map_img,          \* the grayscale image cv2.imread returns
    height, width,    \* its shape
    resolution, origin, occupied_thresh, free_thresh, wall_height,  \* self.*
    occupancy_grid,   \* result of load_and_process_map
    wall_edges,       \* boundary mask
    wall_pixels,      \* np.where(wall_edges), row-major
    i,                \* number of wall pixels processed by the loop
    vertices, faces, vertex_count,   \* locals of create_wall_mesh
    wall_mesh, floor_mesh, combined_mesh,
    files,            \* files the run has written
    error,            \* the exception raised, "" when none
    status            \* main's return value, meaningful when pc = "exit"

vars == <<pc, map_img, height, width, resolution, origin, occupied_thresh,
          free_thresh, wall_height, occupancy_grid, wall_edges, wall_pixels,
          i, vertices, faces, vertex_count, wall_mesh, floor_mesh,
          combined_mesh, files, error, status>>

----------------------------------------------------------------------------
(* Program constants *)

PixelMax == 255
ThreshDen == 1000
DefaultOccupiedThresh == 450
DefaultFreeThresh == 196
Scale == 10
CubeNum == 9

(* Bounds of the model *)

MaxCells == 9        \* grids of Spec have at most this many cells
GeomMaxCells == 3    \* grids of SpecGeom
MaxRes == 2          \* resolutions of SpecGeom are -1..MaxRes
MaxHeight == 2       \* wall heights of SpecGeom are 0..MaxHeight
MaxThreshIdx == 4    \* thresholds of SpecClassify are multiples of ThreshStep

ThreshStep == 250

----------------------------------------------------------------------------
(* Grids *)

Cells(h, w) == (0 .. h - 1) \X (0 .. w - 1)

Shapes(maxCells) ==
    {s \in (1 .. maxCells) \X (1 .. maxCells) : s[1] * s[2] <= maxCells}

\* the cells of an h x w array in row-major order
RowMajor(h, w) == [n \in 1 .. h * w |-> <<(n - 1) \div w, (n - 1) % w>>]

----------------------------------------------------------------------------
(* load_and_process_map: the three masked assignments, in order *)

\* normalized <= 1.0 - t, for normalized = p / 255.0
LeqOneMinus(p, t) == p * ThreshDen <= PixelMax * (ThreshDen - t)
\* normalized >= 1.0 - t
GeqOneMinus(p, t) == p * ThreshDen >= PixelMax * (ThreshDen - t)

OccupiedRule(g, img, occ) ==
    [c \in DOMAIN g |-> IF LeqOneMinus(img[c], occ) THEN 1 ELSE g[c]]

FreeRule(g, img, fr) ==
    [c \in DOMAIN g |-> IF GeqOneMinus(img[c], fr) THEN 0 ELSE g[c]]

UnknownRule(g, img, occ, fr) ==
    [c \in DOMAIN g |->
        IF ~LeqOneMinus(img[c], occ) /\ ~GeqOneMinus(img[c], fr)
        THEN 1 ELSE g[c]]

\* the rules with the Free rule applied before the Occupied rule
ClassifyFreeFirst(img, occ, fr) ==
    LET g0 == [c \in DOMAIN img |-> 0]
        g1 == FreeRule(g0, img, fr)
        g2 == OccupiedRule(g1, img, occ)
    IN  UnknownRule(g2, img, occ, fr)

Classify(img, occ, fr) ==
    LET g0 == [c \in DOMAIN img |-> 0]
        g1 == OccupiedRule(g0, img, occ)
        g2 == FreeRule(g1, img, fr)
    IN  UnknownRule(g2, img, occ, fr)

----------------------------------------------------------------------------
(* create_wall_mesh: boundary extraction *)

Offsets == (-1 .. 1) \X (-1 .. 1)

InGrid(r, c, h, w) == r >= 0 /\ r < h /\ c >= 0 /\ c < w

\* binary_erosion with a cross-shaped structuring element
BinaryErosionCross(g, h, w) ==
    [c \in DOMAIN g |->
        \A d \in {o \in Offsets : o[1] = 0 \/ o[2] = 0} :
            /\ InGrid(c[1] + d[1], c[2] + d[2], h, w)
            /\ g[<<c[1] + d[1], c[2] + d[2]>>] # 0]

\* scipy.ndimage.binary_erosion(g, structure=np.ones((3,3))), border_value 0
BinaryErosion(g, h, w) ==
    [c \in DOMAIN g |->
        \A d \in Offsets :
            /\ InGrid(c[1] + d[1], c[2] + d[2], h, w)
            /\ g[<<c[1] + d[1], c[2] + d[2]>>] # 0]

WallEdges(g, h, w) ==
    LET eroded == BinaryErosion(g, h, w)
    IN  [c \in DOMAIN g |-> (g[c] # 0) /\ ~eroded[c]]

\* np.where that misses the first cell of the array
WallPixelsOffByOne(edges, h, w) ==
    SelectSeq(SubSeq(RowMajor(h, w), 2, h * w), LAMBDA c : edges[c])

\* np.where(wall_edges): the true cells in row-major order
WallPixels(edges, h, w) ==
    SelectSeq(RowMajor(h, w), LAMBDA c : edges[c])

----------------------------------------------------------------------------
(* create_wall_mesh: one cuboid *)

WorldX(col, ox, res) == Scale * (ox + col * res)
\* world_y without the raster-to-world flip
WorldYNoFlip(row, h, oy, res) == Scale * (oy + row * res)
WorldY(row, h, oy, res) == Scale * (oy + (h - row - 1) * res)
CubeSize(res) == CubeNum * res

CubeVertices(row, col, h, org, res, wh) ==
    LET x_min == WorldX(col, org[1], res)
        x_max == WorldX(col, org[1], res) + CubeSize(res)
        y_min == WorldY(row, h, org[2], res)
        y_max == WorldY(row, h, org[2], res) + CubeSize(res)
        z_min == 0
        z_max == Scale * wh
    IN  << <<x_min, y_min, z_min>>, <<x_max, y_min, z_min>>,
           <<x_max, y_max, z_min>>, <<x_min, y_max, z_min>>,
           <<x_min, y_min, z_max>>, <<x_max, y_min, z_max>>,
           <<x_max, y_max, z_max>>, <<x_min, y_max, z_max>> >>

\* cube_faces without base_idx
CubeFacesNoBase(base_idx) ==
    << <<0, 1, 2>>, <<0, 2, 3>>, <<4, 6, 5>>, <<4, 7, 6>>,
       <<0, 4, 5>>, <<0, 5, 1>>, <<3, 2, 6>>, <<3, 6, 7>>,
       <<0, 3, 7>>, <<0, 7, 4>>, <<1, 5, 6>>, <<1, 6, 2>> >>

CubeFaces(base_idx) ==
    << <<base_idx + 0, base_idx + 1, base_idx + 2>>,
       <<base_idx + 0, base_idx + 2, base_idx + 3>>,
       <<base_idx + 4, base_idx + 6, base_idx + 5>>,
       <<base_idx + 4, base_idx + 7, base_idx + 6>>,
       <<base_idx + 0, base_idx + 4, base_idx + 5>>,
       <<base_idx + 0, base_idx + 5, base_idx + 1>>,
       <<base_idx + 3, base_idx + 2, base_idx + 6>>,
       <<base_idx + 3, base_idx + 6, base_idx + 7>>,
       <<base_idx + 0, base_idx + 3, base_idx + 7>>,
       <<base_idx + 0, base_idx + 7, base_idx + 4>>,
       <<base_idx + 1, base_idx + 5, base_idx + 6>>,
       <<base_idx + 1, base_idx + 6, base_idx + 2>> >>

----------------------------------------------------------------------------
(* Vectors and meshes *)

Sub(a, b) == <<a[1] - b[1], a[2] - b[2], a[3] - b[3]>>

Cross(a, b) == <<a[2] * b[3] - a[3] * b[2],
                 a[3] * b[1] - a[1] * b[3],
                 a[1] * b[2] - a[2] * b[1]>>

Dot(a, b) == a[1] * b[1] + a[2] * b[2] + a[3] * b[3]

\* (v1 - v0) x (v2 - v0) of triangle f (0-based indices) over vertex list vs
FaceNormal(vs, f) ==
    Cross(Sub(vs[f[2] + 1], vs[f[1] + 1]), Sub(vs[f[3] + 1], vs[f[1] + 1]))

None == [kind |-> "None", vertices |-> <<>>, faces |-> <<>>]

Trimesh(vs, fs) == [kind |-> "Trimesh", vertices |-> vs, faces |-> fs]

Min3(f) == IF f[1] <= f[2] /\ f[1] <= f[3] THEN f[1]
           ELSE IF f[2] <= f[3] THEN f[2] ELSE f[3]
Max3(f) == IF f[1] >= f[2] /\ f[1] >= f[3] THEN f[1]
           ELSE IF f[2] >= f[3] THEN f[2] ELSE f[3]
\* np.sort(face): the triangle's indices in increasing order
SortedFace(f) == <<Min3(f), f[1] + f[2] + f[3] - Min3(f) - Max3(f), Max3(f)>>

\* Trimesh.remove_duplicate_faces: keep the first of the triangles that have
\* the same indices up to order
RemoveDuplicateFaces(fs) ==
    LET keep == {n \in 1 .. Len(fs) :
                    \A m \in 1 .. n - 1 : SortedFace(fs[m]) # SortedFace(fs[n])}
        F[n \in 0 .. Len(fs)] ==
            IF n = 0 THEN <<>>
            ELSE IF n \in keep THEN Append(F[n - 1], fs[n]) ELSE F[n - 1]
    IN  F[Len(fs)]

\* six times the signed volume enclosed by triangles fs[lo..hi]
RECURSIVE Volume6(_, _, _, _)
Volume6(vs, fs, lo, hi) ==
    IF lo > hi THEN 0
    ELSE Dot(vs[fs[lo][1] + 1], Cross(vs[fs[lo][2] + 1], vs[fs[lo][3] + 1]))
         + Volume6(vs, fs, lo + 1, hi)

\* Trimesh.fix_normals: every connected shell (here: every cuboid, which
\* owns its 8 vertices and its 12 consecutive triangles) whose enclosed
\* volume is negative has all of its triangles reversed
FixNormals(vs, fs) ==
    [n \in 1 .. Len(fs) |->
        LET lo == ((n - 1) \div 12) * 12 + 1
            hi == IF lo + 11 <= Len(fs) THEN lo + 11 ELSE Len(fs)
        IN  IF Volume6(vs, fs, lo, hi) < 0
            THEN <<fs[n][3], fs[n][2], fs[n][1]>>
            ELSE fs[n]]

\* create_wall_mesh without its "no wall pixels" test
WallMeshNoEmptyCheck(vs, fs) ==
    Trimesh(vs, FixNormals(vs, RemoveDuplicateFaces(fs)))

\* the mesh create_wall_mesh returns for the accumulated lists
WallMeshOf(vs, fs) ==
    IF Len(vs) = 0 THEN None
    ELSE Trimesh(vs, FixNormals(vs, RemoveDuplicateFaces(fs)))

FloorVertices(h, w, org, res) ==
    LET x_min == Scale * org[1]
        y_min == Scale * org[2]
        x_max == Scale * (org[1] + w * res)
        y_max == Scale * (org[2] + h * res)
    IN  << <<x_min, y_min, 0>>, <<x_max, y_min, 0>>,
           <<x_max, y_max, 0>>, <<x_min, y_max, 0>> >>

FloorFaces == << <<0, 1, 2>>, <<0, 2, 3>> >>

\* wall_mesh + floor_mesh: vertex lists concatenated, the second mesh's
\* triangle indices offset by the first mesh's vertex count
Concatenate(a, b) ==
    Trimesh(a.vertices \o b.vertices,
            a.faces \o [n \in 1 .. Len(b.faces) |->
                          <<b.faces[n][1] + Len(a.vertices),
                            b.faces[n][2] + Len(a.vertices),
                            b.faces[n][3] + Len(a.vertices)>>])

\* concatenation that leaves the floor's indices as they are
CombineNoOffset(wall, floor) ==
    IF wall.kind # "None"
    THEN Trimesh(wall.vertices \o floor.vertices, wall.faces \o floor.faces)
    ELSE floor

Combine(wall, floor) ==
    IF wall.kind # "None" THEN Concatenate(wall, floor) ELSE floor

----------------------------------------------------------------------------
(* Files *)

ObjPath == "track_3d.obj"
\* output_path.replace('.obj', '.stl')
StlPath == "track_3d.stl"

\* combined_mesh.export(path): the file at path is (over)written
Written(fl, path) == fl \cup {path}

----------------------------------------------------------------------------
(* Initial states: the converter as constructed by main (line 265), with    *)
(* the image on disk and the metadata read from the YAML file.              *)

InitWith(shapes, pixels, resolutions, origins, occs, frees, heights) ==
    /\ pc = "load"
    /\ \E s \in shapes :
          /\ height = s[1]
          /\ width = s[2]
          /\ map_img \in [Cells(s[1], s[2]) -> pixels]
    /\ resolution \in resolutions
    /\ origin \in origins
    /\ occupied_thresh \in occs
    /\ free_thresh \in frees
    /\ wall_height \in heights
    /\ occupancy_grid = <<>>
    /\ wall_edges = <<>>
    /\ wall_pixels = <<>>
    /\ i = 0
    /\ vertices = <<>>
    /\ faces = <<>>
    /\ vertex_count = 0
    /\ wall_mesh = None
    /\ floor_mesh = None
    /\ combined_mesh = None
    /\ files = {}
    /\ error = ""
    /\ status = 0

\* black and white maps of every shape, default thresholds, unit geometry
Init ==
    InitWith(Shapes(MaxCells), {0, PixelMax}, {1}, {<<0, 0>>},
             {DefaultOccupiedThresh}, {DefaultFreeThresh}, {1})

Origins == {<<0, 0>>, <<-3, 2>>}

\* small maps under every resolution (also <= 0), origin and wall height
InitGeom ==
    InitWith(Shapes(GeomMaxCells), {0, PixelMax}, -1 .. MaxRes, Origins,
             {DefaultOccupiedThresh}, {DefaultFreeThresh}, 0 .. MaxHeight)

Thresholds ==
    {k * ThreshStep : k \in 0 .. MaxThreshIdx}
        \cup {DefaultOccupiedThresh, DefaultFreeThresh}

\* one-cell maps of every intensity under every pair of thresholds
InitClassify ==
    InitWith({<<1, 1>>}, 0 .. PixelMax, {1}, {<<0, 0>>},
             Thresholds, Thresholds, {1})

----------------------------------------------------------------------------
(* Actions *)

\* an exception leaves convert_to_3d and is caught in main, which returns 1
Raise(e) ==
    /\ pc' = "exit"
    /\ error' = e
    /\ status' = 1

\* load_and_process_map when cv2.imread returns None
LoadFails ==
    /\ pc = "load"
    /\ Raise("FileNotFoundError")
    /\ UNCHANGED <<map_img, height, width, resolution, origin,
                   occupied_thresh, free_thresh, wall_height, occupancy_grid,
                   wall_edges, wall_pixels, i, vertices, faces, vertex_count,
                   wall_mesh, floor_mesh, combined_mesh, files>>

LoadAndProcessMap ==
    /\ pc = "load"
    /\ occupancy_grid' = Classify(map_img, occupied_thresh, free_thresh)
    /\ pc' = "wall"
    /\ UNCHANGED <<map_img, height, width, resolution, origin,
                   occupied_thresh, free_thresh, wall_height,
                   wall_edges, wall_pixels, i, vertices, faces, vertex_count,
                   wall_mesh, floor_mesh, combined_mesh, files, error, status>>

\* create_wall_mesh up to the loop
WallBegin ==
    /\ pc = "wall"
    /\ wall_edges' = WallEdges(occupancy_grid, height, width)
    /\ wall_pixels' = WallPixels(wall_edges', height, width)
    /\ vertices' = <<>>
    /\ faces' = <<>>
    /\ vertex_count' = 0
    /\ i' = 0
    /\ pc' = "loop"
    /\ UNCHANGED <<map_img, height, width, resolution, origin,
                   occupied_thresh, free_thresh, wall_height, occupancy_grid,
                   wall_mesh, floor_mesh, combined_mesh, files, error, status>>

\* one iteration of the loop over the wall pixels
WallCell ==
    /\ pc = "loop"
    /\ i < Len(wall_pixels)
    /\ LET row == wall_pixels[i + 1][1]
           col == wall_pixels[i + 1][2]
       IN  /\ vertices' = vertices \o
                  CubeVertices(row, col, height, origin, resolution, wall_height)
           /\ faces' = faces \o CubeFaces(vertex_count)
    /\ vertex_count' = vertex_count + 8
    /\ i' = i + 1
    /\ UNCHANGED <<pc, map_img, height, width, resolution, origin,
                   occupied_thresh, free_thresh, wall_height, occupancy_grid,
                   wall_edges, wall_pixels, wall_mesh, floor_mesh,
                   combined_mesh, files, error, status>>

\* create_wall_mesh after the loop: None, or the cleaned-up mesh
WallFinish ==
    /\ pc = "loop"
    /\ i = Len(wall_pixels)
    /\ wall_mesh' = WallMeshOf(vertices, faces)
    /\ pc' = "floor"
    /\ UNCHANGED <<map_img, height, width, resolution, origin,
                   occupied_thresh, free_thresh, wall_height, occupancy_grid,
                   wall_edges, wall_pixels, i, vertices, faces, vertex_count,
                   floor_mesh, combined_mesh, files, error, status>>

CreateFloorMesh ==
    /\ pc = "floor"
    /\ floor_mesh' =
          Trimesh(FloorVertices(height, width, origin, resolution), FloorFaces)
    /\ pc' = "combine"
    /\ UNCHANGED <<map_img, height, width, resolution, origin,
                   occupied_thresh, free_thresh, wall_height, occupancy_grid,
                   wall_edges, wall_pixels, i, vertices, faces, vertex_count,
                   wall_mesh, combined_mesh, files, error, status>>

CombineMeshes ==
    /\ pc = "combine"
    /\ combined_mesh' = Combine(wall_mesh, floor_mesh)
    /\ pc' = "export_obj"
    /\ UNCHANGED <<map_img, height, width, resolution, origin,
                   occupied_thresh, free_thresh, wall_height, occupancy_grid,
                   wall_edges, wall_pixels, i, vertices, faces, vertex_count,
                   wall_mesh, floor_mesh, files, error, status>>

ExportObj ==
    /\ pc = "export_obj"
    /\ files' = Written(files, ObjPath)
    /\ pc' = "export_stl"
    /\ UNCHANGED <<map_img, height, width, resolution, origin,
                   occupied_thresh, free_thresh, wall_height, occupancy_grid,
                   wall_edges, wall_pixels, i, vertices, faces, vertex_count,
                   wall_mesh, floor_mesh, combined_mesh, error, status>>

\* the OBJ export raises: nothing is written, main returns 1
ExportObjFails ==
    /\ pc = "export_obj"
    /\ Raise("ExportError")
    /\ UNCHANGED <<map_img, height, width, resolution, origin,
                   occupied_thresh, free_thresh, wall_height, occupancy_grid,
                   wall_edges, wall_pixels, i, vertices, faces, vertex_count,
                   wall_mesh, floor_mesh, combined_mesh, files>>

\* the second export and main's return 0
ExportStl ==
    /\ pc = "export_stl"
    /\ files' = Written(files, StlPath)
    /\ pc' = "exit"
    /\ status' = 0
    /\ UNCHANGED <<map_img, height, width, resolution, origin,
                   occupied_thresh, free_thresh, wall_height, occupancy_grid,
                   wall_edges, wall_pixels, i, vertices, faces, vertex_count,
                   wall_mesh, floor_mesh, combined_mesh, error>>

\* the STL export raises after the OBJ file was written; main returns 1
ExportStlFails ==
    /\ pc = "export_stl"
    /\ Raise("ExportError")
    /\ UNCHANGED <<map_img, height, width, resolution, origin,
                   occupied_thresh, free_thresh, wall_height, occupancy_grid,
                   wall_edges, wall_pixels, i, vertices, faces, vertex_count,
                   wall_mesh, floor_mesh, combined_mesh, files>>

Next ==
    \/ LoadFails
    \/ LoadAndProcessMap
    \/ WallBegin
    \/ WallCell
    \/ WallFinish
    \/ CreateFloorMesh
    \/ CombineMeshes
    \/ ExportObj
    \/ ExportObjFails
    \/ ExportStl
    \/ ExportStlFails

Spec == Init /\ [][Next]_vars
SpecGeom == InitGeom /\ [][Next]_vars
SpecClassify == InitClassify /\ [][Next]_vars

----------------------------------------------------------------------------
(* Positions *)

\* load_and_process_map has returned
Loaded == pc # "load" /\ error # "FileNotFoundError"
\* the boundary mask has been computed
Extracted == Loaded /\ pc # "wall"
\* create_wall_mesh has returned
WallDone == Extracted /\ pc # "loop"
\* create_floor_mesh has returned
FloorDone == WallDone /\ pc # "floor"
\* the meshes have been combined
Combined == FloorDone /\ pc # "combine"

Grid == Cells(height, width)

BoundaryCells == {c \in Grid : wall_edges[c]}

----------------------------------------------------------------------------
\* C1: after load_and_process_map every cell is 0 or 1; it is Free (0)
\* exactly when v >= 1 - free_thresh and Occupied (1) otherwise, for every
\* pair of thresholds: Free wins when both the Occupied and the Free
\* condition hold, and the unknown band ends Occupied.
C1_FreeIffAboveFreeThreshold ==
    Loaded =>
        \A c \in Grid :
            LET v == map_img[c]
                isFree == v * ThreshDen >= PixelMax * (ThreshDen - free_thresh)
                isOcc == v * ThreshDen <= PixelMax * (ThreshDen - occupied_thresh)
            IN  /\ occupancy_grid[c] \in {0, 1}
                /\ (occupancy_grid[c] = 0) <=> isFree
                /\ (isFree /\ isOcc) => occupancy_grid[c] = 0
                /\ (~isFree /\ ~isOcc) => occupancy_grid[c] = 1

\* a cell that meets both the Occupied and the Free condition was classified
C1_Witness ==
    /\ Loaded
    /\ \E c \in Grid :
          /\ map_img[c] * ThreshDen >= PixelMax * (ThreshDen - free_thresh)
          /\ map_img[c] * ThreshDen <= PixelMax * (ThreshDen - occupied_thresh)
          /\ free_thresh > occupied_thresh
          /\ occupancy_grid[c] = 0

\* C2: a cell is in the boundary mask exactly when it is Occupied and one of
\* its 8 neighbours is Free or outside the grid; a 3x3 all-occupied grid has
\* exactly 8 boundary cells.
C2_BoundaryIffOccupiedWithOpenNeighbour ==
    Extracted =>
        /\ \A c \in Grid :
              wall_edges[c] <=>
                 /\ occupancy_grid[c] = 1
                 /\ \E dr \in -1 .. 1, dc \in -1 .. 1 :
                       /\ <<dr, dc>> # <<0, 0>>
                       /\ \/ <<c[1] + dr, c[2] + dc>> \notin Grid
                          \/ occupancy_grid[<<c[1] + dr, c[2] + dc>>] = 0
        /\ (height = 3 /\ width = 3 /\ \A c \in Grid : occupancy_grid[c] = 1)
              => Cardinality(BoundaryCells) = 8

\* the 3x3 all-occupied grid: its centre is not a boundary cell
C2_Witness ==
    /\ Extracted
    /\ height = 3 /\ width = 3
    /\ \A c \in Grid : occupancy_grid[c] = 1
    /\ ~wall_edges[<<1, 1>>]
    /\ wall_edges[<<0, 0>>]

\* C3: with B boundary cells the wall loop leaves 8B vertices and 12B
\* triangles, the floor has 4 and 2, and the combined mesh 8B + 4 and 12B + 2.
C3_MeshCounts ==
    /\ WallDone =>
          /\ Len(vertices) = 8 * Cardinality(BoundaryCells)
          /\ Len(faces) = 12 * Cardinality(BoundaryCells)
    /\ FloorDone =>
          /\ Len(floor_mesh.vertices) = 4
          /\ Len(floor_mesh.faces) = 2
    /\ Combined =>
          /\ Len(combined_mesh.vertices) = 8 * Cardinality(BoundaryCells) + 4
          /\ Len(combined_mesh.faces) = 12 * Cardinality(BoundaryCells) + 2

\* a combined mesh of a grid with boundary cells and an interior cell
C3_Witness ==
    /\ Combined
    /\ Cardinality(BoundaryCells) = 8
    /\ \E c \in Grid : occupancy_grid[c] = 1 /\ ~wall_edges[c]
    /\ Len(combined_mesh.faces) = 98

\* n points along the axis (1 = X, 2 = Y, 3 = Z) in direction sign
Toward(n, axis, sign) ==
    /\ \A a \in 1 .. 3 : a # axis => n[a] = 0
    /\ n[axis] * sign > 0

\* the outward direction of the j-th triangle of a cuboid, as <<axis, sign>>
Outward(j) ==
    CASE j \in {1, 2} -> <<3, -1>>
      [] j \in {3, 4} -> <<3, 1>>
      [] j \in {5, 6} -> <<2, -1>>
      [] j \in {7, 8} -> <<2, 1>>
      [] j \in {9, 10} -> <<1, -1>>
      [] j \in {11, 12} -> <<1, 1>>

\* C4: for resolution > 0 and wall height > 0 each of the 12 triangles the
\* loop emits for a cell has its normal (v1 - v0) x (v2 - v0) pointing out of
\* the cuboid: bottom -Z, top +Z, front -Y, back +Y, left -X, right +X.
C4_EmittedWindingOutward ==
    (resolution > 0 /\ wall_height > 0) =>
        \A k \in 0 .. i - 1 : \A j \in 1 .. 12 :
            Toward(FaceNormal(vertices, faces[12 * k + j]),
                   Outward(j)[1], Outward(j)[2])

\* the corners of the box [xlo, xhi] x [ylo, yhi] x [zlo, zhi]
Corners(xlo, xhi, ylo, yhi, zlo, zhi) ==
    {<<x, y, z>> : x \in {xlo, xhi}, y \in {ylo, yhi}, z \in {zlo, zhi}}

\* C5: the 8 vertices emitted for boundary cell (row, col) are the corners of
\* [ox + col*r, ox + col*r + 0.9r] x [oy + (R-row-1)*r, .. + 0.9r] x [0, h]
\* (coordinates in units of 1/Scale); row 0 starts at oy + (R-1)*r and the
\* last row at oy.
C5_CuboidCorners ==
    \A k \in 0 .. i - 1 :
        LET row == wall_pixels[k + 1][1]
            col == wall_pixels[k + 1][2]
            xlo == Scale * origin[1] + Scale * col * resolution
            ylo == Scale * origin[2] + Scale * (height - row - 1) * resolution
            emitted == {vertices[8 * k + j] : j \in 1 .. 8}
        IN  /\ emitted = Corners(xlo, xlo + CubeNum * resolution,
                                 ylo, ylo + CubeNum * resolution,
                                 0, Scale * wall_height)
            /\ row = 0 =>
                  \A v \in emitted :
                     v[2] \in {Scale * (origin[2] + (height - 1) * resolution),
                               Scale * (origin[2] + (height - 1) * resolution)
                                  + CubeNum * resolution}
            /\ row = height - 1 =>
                  \A v \in emitted :
                     v[2] \in {Scale * origin[2],
                               Scale * origin[2] + CubeNum * resolution}

\* cuboids were emitted for cells of two different rows, off the origin
C5_Witness ==
    /\ i >= 2
    /\ wall_pixels[1][1] = 0
    /\ wall_pixels[2][1] = 1
    /\ resolution = 2
    /\ origin = <<-3, 2>>
    /\ wall_height = 2

C7_AllFreeIsFloorOnly ==
    (Loaded /\ \A c \in Grid : occupancy_grid[c] = 0) =>
        /\ Extracted => wall_pixels = <<>>
        /\ WallDone =>
              /\ vertices = <<>>
              /\ faces = <<>>
              /\ wall_mesh.kind = "None"
        /\ Combined =>
              /\ combined_mesh = floor_mesh
              /\ Len(combined_mesh.vertices) = 4
              /\ Len(combined_mesh.faces) = 2
        /\ error \in {"", "ExportError"}
        /\ (pc = "exit" /\ error = "") =>
              /\ status = 0
              /\ files = {ObjPath, StlPath}

\* a fully free grid of several cells converted to the end
C7_Witness ==
    /\ pc = "exit"
    /\ status = 0
    /\ error = ""
    /\ height * width >= 4
    /\ \A c \in Grid : occupancy_grid[c] = 0
    /\ combined_mesh = floor_mesh

\* C8: a run in which a step failed returns a non-zero status and leaves no
\* exported file behind.
C8_FailedRunLeavesNoOutput ==
    (pc = "exit" /\ error # "") => (status # 0 /\ files = {})

\* C9: metadata with resolution <= 0 is rejected before any grid processing:
\* no cell is classified and no geometry or export is produced.
C9_NonPositiveResolutionRejected ==
    resolution <= 0 =>
        /\ ~Loaded
        /\ occupancy_grid = <<>>
        /\ combined_mesh.kind = "None"
        /\ files = {}

\* C10: after i boundary cells, vertex_count = len(vertices) = 8i and
\* len(faces) = 12i; the 12 triangles of the k-th cell have three distinct
\* indices each, all in 8k..8k+7, and use all 8 of them.
C10_LoopInvariant ==
    /\ vertex_count = Len(vertices)
    /\ Len(vertices) = 8 * i
    /\ Len(faces) = 12 * i
    /\ i <= Len(wall_pixels)
    /\ \A k \in 0 .. i - 1 :
          /\ \A j \in 1 .. 12 :
                LET f == faces[12 * k + j]
                IN  /\ \A a \in 1 .. 3 : f[a] \in 8 * k .. 8 * k + 7
                    /\ Cardinality({f[1], f[2], f[3]}) = 3
          /\ UNION {{faces[12 * k + j][a] : a \in 1 .. 3} : j \in 1 .. 12}
                = 8 * k .. 8 * k + 7

\* the loop is in progress with two cuboids emitted and more to come
C10_Witness ==
    /\ pc = "loop"
    /\ i = 2
    /\ Len(wall_pixels) > 2

====
